---- MODULE Spec2Model ----
(***************************************************************************)
(* A model of the two configuration helpers of the repository:             *)
(*   - accumulo_configuration.py: setup_conf_dir and its two helpers, run   *)
(*     statement by statement against a filesystem of directories and      *)
(*     files with owner, group, mode and content;                          *)
(*   - AgentConfig.py: the module-level RawConfigParser `config` and the    *)
(*     AgentConfig accessors over it.                                      *)
(* Spec is the materializer, SpecAgent the agent configuration store.      *)
(***************************************************************************)
EXTENDS Integers, Sequences, FiniteSets, TLC

\* Python's None, as a value that can be compared with strings.
NoneVal == "<None>"

(***************************************************************************)
(* Bounds                                                                  *)
(***************************************************************************)
\* how many times setup_conf_dir is invoked in one behaviour
MaxRuns == 2

(***************************************************************************)
(* The parameter set (import params) of accumulo_configuration.py          *)
(***************************************************************************)
RoleNames == {"master", "tserver", "monitor", "gc", "tracer", "client"}
\* setup_conf_dir(name=None): the argument may be omitted
NameArgs == RoleNames \cup {NoneVal}

ClientKeys == {"instance.zookeeper.host", "instance.dfs.dir", "general.classpaths"}
ExtraSiteKeys == {"instance.secret", "tserver.memory.maps.max"}
ZookeeperHosts == {"zk1:2181", "zk2:2181"}
Log4jChoices == {NoneVal, "", "log4j.rootLogger=INFO"}

\* the bundles params.config['configurations'] can be: 'accumulo-site' always
\* holds the three keys the client branch reads, plus any other keys;
\* 'accumulo-policy' is optional
SiteBundles ==
  { [k \in ClientKeys \cup X |->
       IF k = "instance.zookeeper.host" THEN zk ELSE "value of " \o k] :
    X \in SUBSET ExtraSiteKeys, zk \in ZookeeperHosts }
PolicyBundle == [k \in {"grant"} |-> "permission java.security.AllPermission"]
ConfigurationsChoices ==
  { [s \in {"accumulo-site"} |-> site] : site \in SiteBundles }
  \cup { [s \in {"accumulo-site", "accumulo-policy"} |->
            IF s = "accumulo-site" THEN site ELSE PolicyBundle] : site \in SiteBundles }

ParamsChoices ==
  [ conf_dir : {"/app/conf"}, pid_dir : {"/app/run"}, log_dir : {"/app/log"},
    accumulo_user : {"accumulo"}, user_group : {"hadoop"},
    log4j_props : Log4jChoices,
    configurations : ConfigurationsChoices ]

VARIABLES
  params,     \* the parameter set of the materializer
  name,       \* the argument of the running setup_conf_dir call
  pc,         \* the statement of setup_conf_dir to run next, or "idle"
  fs,         \* the filesystem: [dirs, files], path -> attributes
  applied,    \* the resources the running call has declared so far, in order
  runs,       \* number of setup_conf_dir calls started
  prevName,   \* the argument of the previous completed call
  prevFs,     \* the filesystem the previous completed call left
  config,     \* AgentConfig.py's module-level parser: [sections, defaults]
  inst,       \* the AgentConfig objects: [built, agentRoot, label]
  ret,        \* the last AgentConfig call and what it returned or raised
  before,     \* the parser as it was when the last call started
  loaded,     \* the file names given to setConfig so far, in order
  loader      \* the object the last setConfig was called on

agentVars == <<config, inst, ret, before, loaded, loader>>

matVars == <<params, name, pc, fs, applied, runs, prevName, prevFs>>

(***************************************************************************)
(* resource_management primitives                                          *)
(***************************************************************************)
\* the account the provisioning process runs as, and what a fresh file gets
\* when no mode is asked for
ProcessUser == "root"
ProcessGroup == "root"
DefaultMode == "default"

\* format("{dir}/{name}")
Path(dir, file) == <<dir, file>>

Has(f, p) == p \in DOMAIN f
Put(f, p, v) == (p :> v) @@ f

\* an attribute left None keeps what the path has, or the process default
Attr(given, f, p, field, fresh) ==
  IF given # NoneVal THEN given
  ELSE IF Has(f, p) THEN f[p][field] ELSE fresh

\* Directory(path, owner, group, recursive=True)
Directory(f, path, owner, group) ==
  [f EXCEPT !.dirs = Put(f.dirs, path,
     [owner |-> Attr(owner, f.dirs, path, "owner", ProcessUser),
      group |-> Attr(group, f.dirs, path, "group", ProcessGroup)])]

\* File(path, content, owner, group, mode): create or replace
File(f, path, content, owner, group, mode) ==
  [f EXCEPT !.files = Put(f.files, path,
     [content |-> content,
      owner |-> Attr(owner, f.files, path, "owner", ProcessUser),
      group |-> Attr(group, f.files, path, "group", ProcessGroup),
      mode  |-> Attr(mode, f.files, path, "mode", DefaultMode)])]

\* StaticFile(name): the packaged file of that name
StaticFile(file) == [kind |-> "static", of |-> file]
\* an inline string given as content
InlineContent(text) == [kind |-> "text", of |-> text]

\* TemplateConfig(path, owner, group, template_tag)
TemplateConfig(f, path, owner, group, tag) ==
  File(f, path, [kind |-> "template", of |-> path[2], tag |-> tag],
       owner, group, NoneVal)

\* XmlConfig(filename, conf_dir, configurations, owner, group, mode):
\* renders the configurations map at format("{conf_dir}/{filename}")
XmlConfig(f, filename, conf_dir, configurations, owner, group, mode) ==
  File(f, Path(conf_dir, filename),
       [kind |-> "xml", of |-> configurations], owner, group, mode)

(***************************************************************************)
(* accumulo_configuration.py                                               *)
(***************************************************************************)
\* accumulo_TemplateConfig keeping the previous rendering as a backup
accumulo_TemplateConfig_backup(f, file, tag) ==
  LET p == Path(params.conf_dir, file)
      g == IF Has(f.files, p)
             THEN [f EXCEPT !.files =
                     Put(f.files, Path(params.conf_dir, file \o ".bak"), f.files[p])]
             ELSE f
  IN TemplateConfig(g, p, params.accumulo_user, params.user_group, tag)

accumulo_TemplateConfig(f, file, tag) ==
  TemplateConfig(f, Path(params.conf_dir, file),
                 params.accumulo_user, params.user_group, tag)

\* accumulo_StaticFile with the owner and group arguments forgotten
accumulo_StaticFile_noowner(f, file) ==
  File(f, Path(params.conf_dir, file), StaticFile(file),
       NoneVal, NoneVal, "0644")

accumulo_StaticFile(f, file) ==
  File(f, Path(params.conf_dir, file), StaticFile(file),
       params.accumulo_user, params.user_group, "0644")

\* the test of line 34 with an omitted role treated like the client
NeedsServerDirs_truthy(n) == n # "client" /\ n # NoneVal

\* line 34: if name != "client"
NeedsServerDirs(n) == n # "client"

\* the client map built from the whole site section
client_configurations_all(site) == site

\* lines 59-62: the three keys copied out of 'accumulo-site'
client_configurations(site) ==
  [k \in {"instance.zookeeper.host", "instance.dfs.dir", "general.classpaths"}
     |-> site[k]]

\* the test of line 81 as a truth test, which an empty string fails
Log4jOverridden_truthy(props) == props # NoneVal /\ props # ""

\* line 81: if (params.log4j_props != None)
Log4jOverridden(props) == props # NoneVal

\* line 98: if 'accumulo-policy' in params.config['configurations']
HasPolicy(configurations) == "accumulo-policy" \in DOMAIN configurations

HostFiles == <<"masters", "slaves", "monitor", "gc", "tracers">>
LoggingFiles ==
  <<"auditLog.xml", "generic_logger.xml", "monitor_logger.xml", "accumulo-metrics.xml">>

\* the running call's record of a resource it has declared and what it wrote
Declare(kind, path) ==
  applied' = Append(applied,
    [kind |-> kind, path |-> path,
     content |-> IF kind = "file" THEN fs'.files[path].content
                 ELSE [kind |-> "directory", of |-> path]])

EmptyFs == [dirs |-> <<>>, files |-> <<>>]

InitMat ==
  /\ params \in ParamsChoices
  /\ name = NoneVal
  /\ pc = "idle"
  /\ fs = EmptyFs
  /\ applied = <<>>
  /\ runs = 0
  /\ prevName = "<never>"
  /\ prevFs = EmptyFs

\* a call of setup_conf_dir(n) starts
Invoke ==
  /\ pc = "idle"
  /\ runs < MaxRuns
  /\ \E n \in NameArgs : name' = n
  /\ pc' = "conf_dir"
  /\ runs' = runs + 1
  /\ applied' = <<>>
  /\ prevName' = IF runs = 0 THEN prevName ELSE name
  /\ prevFs' = fs
  /\ UNCHANGED <<params, fs, agentVars>>

\* lines 28-32, and the test of line 34
CreateConfDir ==
  /\ pc = "conf_dir"
  /\ fs' = Directory(fs, params.conf_dir, params.accumulo_user, params.user_group)
  /\ Declare("dir", params.conf_dir)
  /\ pc' = IF NeedsServerDirs(name) THEN "pid_dir" ELSE "client_site"
  /\ UNCHANGED <<params, name, runs, prevName, prevFs, agentVars>>

\* lines 36-40
CreatePidDir ==
  /\ pc = "pid_dir"
  /\ fs' = Directory(fs, params.pid_dir, params.accumulo_user, params.user_group)
  /\ Declare("dir", params.pid_dir)
  /\ pc' = "log_dir"
  /\ UNCHANGED <<params, name, runs, prevName, prevFs, agentVars>>

\* lines 43-47
CreateLogDir ==
  /\ pc = "log_dir"
  /\ fs' = Directory(fs, params.log_dir, params.accumulo_user, params.user_group)
  /\ Declare("dir", params.log_dir)
  /\ pc' = "server_site"
  /\ UNCHANGED <<params, name, runs, prevName, prevFs, agentVars>>

\* lines 50-56
ServerSite ==
  /\ pc = "server_site"
  /\ fs' = XmlConfig(fs, "accumulo-site.xml", params.conf_dir,
                     params.configurations["accumulo-site"],
                     params.accumulo_user, params.user_group, "0600")
  /\ Declare("file", Path(params.conf_dir, "accumulo-site.xml"))
  /\ pc' = "env"
  /\ UNCHANGED <<params, name, runs, prevName, prevFs, agentVars>>

\* lines 59-68
ClientSite ==
  /\ pc = "client_site"
  /\ fs' = XmlConfig(fs, "accumulo-site.xml", params.conf_dir,
                     client_configurations(params.configurations["accumulo-site"]),
                     params.accumulo_user, params.user_group, NoneVal)
  /\ Declare("file", Path(params.conf_dir, "accumulo-site.xml"))
  /\ pc' = "env"
  /\ UNCHANGED <<params, name, runs, prevName, prevFs, agentVars>>

\* line 71
EnvFile ==
  /\ pc = "env"
  /\ fs' = accumulo_TemplateConfig(fs, "accumulo-env.sh", NoneVal)
  /\ Declare("file", Path(params.conf_dir, "accumulo-env.sh"))
  /\ pc' = HostFiles[1]
  /\ UNCHANGED <<params, name, runs, prevName, prevFs, agentVars>>

\* lines 74-78
HostFile ==
  \E i \in 1..Len(HostFiles) :
    /\ pc = HostFiles[i]
    /\ fs' = accumulo_StaticFile(fs, HostFiles[i])
    /\ Declare("file", Path(params.conf_dir, HostFiles[i]))
    /\ pc' = IF i < Len(HostFiles) THEN HostFiles[i + 1] ELSE "log4j"
    /\ UNCHANGED <<params, name, runs, prevName, prevFs, agentVars>>

\* lines 81-87
Log4jOverride ==
  /\ pc = "log4j"
  /\ Log4jOverridden(params.log4j_props)
  /\ fs' = File(fs, Path(params.conf_dir, "log4j.properties"),
                InlineContent(params.log4j_props),
                params.accumulo_user, params.user_group, "0644")
  /\ Declare("file", Path(params.conf_dir, "log4j.properties"))
  /\ pc' = LoggingFiles[1]
  /\ UNCHANGED <<params, name, runs, prevName, prevFs, agentVars>>

\* lines 88-89
Log4jStatic ==
  /\ pc = "log4j"
  /\ ~Log4jOverridden(params.log4j_props)
  /\ fs' = accumulo_StaticFile(fs, "log4j.properties")
  /\ Declare("file", Path(params.conf_dir, "log4j.properties"))
  /\ pc' = LoggingFiles[1]
  /\ UNCHANGED <<params, name, runs, prevName, prevFs, agentVars>>

\* lines 92-95
LoggingFile ==
  \E i \in 1..Len(LoggingFiles) :
    /\ pc = LoggingFiles[i]
    /\ fs' = accumulo_StaticFile(fs, LoggingFiles[i])
    /\ Declare("file", Path(params.conf_dir, LoggingFiles[i]))
    /\ pc' = IF i < Len(LoggingFiles) THEN LoggingFiles[i + 1] ELSE "policy"
    /\ UNCHANGED <<params, name, runs, prevName, prevFs, agentVars>>

\* lines 98-103: XmlConfig is given no conf_dir, which stays None
PolicyFile ==
  /\ pc = "policy"
  /\ HasPolicy(params.configurations)
  /\ fs' = XmlConfig(fs, "accumulo-policy.xml", NoneVal,
                     params.configurations["accumulo-policy"],
                     params.accumulo_user, params.user_group, NoneVal)
  /\ Declare("file", Path(NoneVal, "accumulo-policy.xml"))
  /\ pc' = "idle"
  /\ UNCHANGED <<params, name, runs, prevName, prevFs, agentVars>>

\* line 98, section absent: the call returns
PolicySkip ==
  /\ pc = "policy"
  /\ ~HasPolicy(params.configurations)
  /\ pc' = "idle"
  /\ UNCHANGED <<params, name, fs, applied, runs, prevName, prevFs, agentVars>>

(***************************************************************************)
(* AgentConfig.py                                                          *)
(*                                                                         *)
(* A string that is used as a path is a sequence of tokens, each either    *)
(* the separator "/" or a run of other characters: "app/pkg" is            *)
(* <<"app", "/", "pkg">>, "" is <<>>. Section and option names are plain   *)
(* strings. A configuration text is a sequence of blocks, a [section]      *)
(* header and the key=value lines under it, in file order.                 *)
(***************************************************************************)
Block(sect, opts) == [sect |-> sect, opts |-> opts]

\* lines 26-53: the embedded default text
content ==
  << Block("server", << <<"hostname", <<"localhost">> >>,
                        <<"port", <<"8440">> >>,
                        <<"secured_port", <<"8441">> >> >>),
     Block("agent", << <<"app_pkg_dir", <<"app", "/", "pkg">> >>,
                       <<"app_pid_dir", <<"app", "/", "run">> >>,
                       <<"app_log_dir", <<"app", "/", "log">> >>,
                       <<"app_task_dir", <<"app", "/", "data">> >>,
                       <<"log_dir", <<"log">> >>,
                       <<"log_level", <<"INFO">> >> >>),
     Block("python", << >>),
     Block("command", << <<"max_retries", <<"2">> >>,
                         <<"sleep_between_retries", <<"1">> >> >>),
     Block("security", << >>),
     Block("heartbeat", << <<"state_interval", <<"6">> >>,
                           <<"log_lines_count", <<"300">> >> >>) >>

\* the override files on the agent's disk, by file name; a name that is not
\* here is a file that does not exist
Disk ==
  [f \in {"debug.ini", "paths.ini", "default.ini"} |->
     CASE f = "debug.ini" ->
            << Block("agent", << <<"log_level", <<"DEBUG">> >> >>) >>
       [] f = "paths.ini" ->
            << Block("agent", << <<"LOG_LEVEL", <<"WARN">> >>,
                                 <<"app_pkg_dir", <<"pkgs">> >>,
                                 <<"app_pkg_dir", <<"/", "abs", "/", "path">> >> >>),
               Block("DEFAULT", << <<"foo", <<"baz">> >> >>) >>
       [] f = "default.ini" ->
            << Block("extra", << >>),
               Block("DEFAULT", << <<"foo", <<"bar">> >>,
                                   <<"log_level", <<"TRACE">> >> >>) >> ]
FileNames == DOMAIN Disk \cup {"missing.ini"}

\* how many setConfig calls a behaviour makes
MaxLoads == 2

Instances == {"a", "b"}
\* the (rootPath, label) pairs AgentConfig objects are built with
BuildArgs ==
  { << <<"/", "opt", "/", "agent">>, "one" >>,
    << <<"/", "opt", "/", "agent", "/">>, "two" >>,
    << <<>>, "three" >> }
\* the arguments get and getResolvedPath are called with
Categories == {"server", "agent", "python", "nosuch", "DEFAULT", "extra"}
Names == {"port", "log_level", "LOG_LEVEL", "app_pkg_dir", "foo", "__name__"}
\* the (category, name) pairs get is called with
Lookups ==
  { <<"server", "port">>, <<"server", "log_level">>,
    <<"agent", "log_level">>, <<"agent", "LOG_LEVEL">>,
    <<"agent", "app_pkg_dir">>, <<"agent", "foo">>,
    <<"python", "foo">>, <<"python", "port">>, <<"python", "__name__">>,
    <<"extra", "foo">>, <<"extra", "__name__">>,
    <<"nosuch", "foo">>, <<"DEFAULT", "foo">> }
\* the names getResolvedPath is called with
PathNames == {"app_pkg_dir", "log_level", "LOG_LEVEL", "foo", "__name__"}

(***************************************************************************)
(* ConfigParser.RawConfigParser (Python 2), as far as AgentConfig uses it  *)
(***************************************************************************)
DEFAULTSECT == "DEFAULT"

\* optionxform: str.lower(), over the option names of the model
optionxform(option) ==
  CASE option = "LOG_LEVEL" -> "log_level"
    [] OTHER -> option

\* RawConfigParser(): no sections, no defaults
RawConfigParser == [sections |-> <<>>, defaults |-> <<>>]

\* _read, a section header: an existing section or the defaults are
\* continued, a new section starts with its name under "__name__"
ReadHeader(parser, sectname) ==
  IF sectname \in DOMAIN parser.sections \/ sectname = DEFAULTSECT THEN parser
  ELSE [parser EXCEPT !.sections =
          (sectname :> ("__name__" :> <<sectname>>)) @@ parser.sections]

\* _read, an option line under the header of sectname
ReadOption(parser, sectname, opt) ==
  LET optname == optionxform(opt[1]) IN
  IF sectname = DEFAULTSECT /\ sectname \notin DOMAIN parser.sections
    THEN [parser EXCEPT !.defaults = (optname :> opt[2]) @@ parser.defaults]
    ELSE [parser EXCEPT !.sections[sectname] =
            (optname :> opt[2]) @@ parser.sections[sectname]]

RECURSIVE ReadOptions(_, _, _)
ReadOptions(parser, sectname, opts) ==
  IF opts = <<>> THEN parser
  ELSE ReadOptions(ReadOption(parser, sectname, Head(opts)), sectname, Tail(opts))

\* _read: the blocks of one text, in order
RECURSIVE ReadBlocks(_, _)
ReadBlocks(parser, blocks) ==
  IF blocks = <<>> THEN parser
  ELSE ReadBlocks(
         ReadOptions(ReadHeader(parser, Head(blocks).sect),
                     Head(blocks).sect, Head(blocks).opts),
         Tail(blocks))

\* read(filename): a file that cannot be opened is skipped
ConfigRead(parser, filename) ==
  IF filename \in DOMAIN Disk THEN ReadBlocks(parser, Disk[filename]) ELSE parser

Returned(value) == [error |-> "", value |-> value]
Raised(error) == [error |-> error, value |-> <<>>]

\* get(section, option)
ConfigGet(parser, section, option) ==
  LET opt == optionxform(option) IN
  IF section \notin DOMAIN parser.sections THEN
    IF section # DEFAULTSECT THEN Raised("NoSectionError")
    ELSE IF opt \in DOMAIN parser.defaults THEN Returned(parser.defaults[opt])
    ELSE Raised("NoOptionError")
  ELSE IF opt \in DOMAIN parser.sections[section]
    THEN Returned(parser.sections[section][opt])
  ELSE IF opt \in DOMAIN parser.defaults THEN Returned(parser.defaults[opt])
  ELSE Raised("NoOptionError")

(***************************************************************************)
(* os.path (posixpath)                                                     *)
(***************************************************************************)
\* isabs(s): s.startswith('/')
isabs(s) == s # <<>> /\ s[1] = "/"

\* join(a, b)
join(a, b) ==
  IF isabs(b) THEN b
  ELSE IF a = <<>> \/ a[Len(a)] = "/" THEN a \o b
  ELSE a \o <<"/">> \o b

(***************************************************************************)
(* class AgentConfig; each method gives [config, result]                   *)
(***************************************************************************)
AGENT_SECTION == "agent"

\* lines 54-55: config.readfp(s) on the fresh module-level parser
DefaultConfig == ReadBlocks(RawConfigParser, content)

\* line 71, the class attribute an object has before __init__ assigns its own
Unbuilt == [built |-> FALSE, agentRoot |-> <<".">>, label |-> NoneVal]

\* lines 73-75
AgentConfigInit(rootPath, label) ==
  [built |-> TRUE, agentRoot |-> rootPath, label |-> label]

\* getResolvedPath gluing the root in front of every value
getResolvedPath_concat(self, cfg, nm) ==
  LET relativePath == ConfigGet(cfg, AGENT_SECTION, nm) IN
  [config |-> cfg,
   result |-> IF relativePath.error # "" THEN relativePath
              ELSE Returned(self.agentRoot \o <<"/">> \o relativePath.value)]

\* lines 83-90
getResolvedPath(self, cfg, nm) ==
  LET relativePath == ConfigGet(cfg, AGENT_SECTION, nm) IN
  [config |-> cfg,
   result |-> IF relativePath.error # "" THEN relativePath
              ELSE IF ~isabs(relativePath.value)
                THEN Returned(join(self.agentRoot, relativePath.value))
              ELSE Returned(relativePath.value)]

\* get answering a missing section or option with an empty value
get_fallback(self, cfg, category, nm) ==
  LET r == ConfigGet(cfg, category, nm) IN
  [config |-> cfg, result |-> IF r.error # "" THEN Returned(<<>>) ELSE r]

\* lines 92-94
get(self, cfg, category, nm) ==
  [config |-> cfg, result |-> ConfigGet(cfg, category, nm)]

\* setConfig binding a new parser to the module's name before reading
setConfig_replace(self, cfg, configFile) ==
  [config |-> ConfigRead(RawConfigParser, configFile), result |-> Returned(<<>>)]

\* setConfig without `global config`, reading into a parser of its own
setConfig_local(self, cfg, configFile) ==
  [config |-> cfg, result |-> Returned(<<>>)]

\* lines 96-98
setConfig(self, cfg, configFile) ==
  [config |-> ConfigRead(cfg, configFile), result |-> Returned(<<>>)]

NoCall ==
  [op |-> "none", self |-> "", category |-> "", name |-> "",
   error |-> "", value |-> <<>>]
Call(op, self, category, nm, result) ==
  [op |-> op, self |-> self, category |-> category, name |-> nm,
   error |-> result.error, value |-> result.value]

InitAgent ==
  /\ config = DefaultConfig
  /\ inst = [i \in Instances |-> Unbuilt]
  /\ ret = NoCall
  /\ before = DefaultConfig
  /\ loaded = <<>>
  /\ loader = ""

\* AgentConfig(rootPath, label)
Construct ==
  \E i \in Instances, args \in BuildArgs :
    /\ ~inst[i].built
    /\ inst' = [inst EXCEPT ![i] = AgentConfigInit(args[1], args[2])]
    /\ ret' = Call("__init__", i, "", "", Returned(<<>>))
    /\ before' = config
    /\ UNCHANGED <<config, loaded, loader, matVars>>

GetRootPath ==
  \E i \in Instances :
    /\ inst[i].built
    /\ ret' = Call("getRootPath", i, "", "", Returned(inst[i].agentRoot))
    /\ before' = config
    /\ UNCHANGED <<config, inst, loaded, loader, matVars>>

GetLabel ==
  \E i \in Instances :
    /\ inst[i].built
    /\ ret' = Call("getLabel", i, "", "", Returned(<<inst[i].label>>))
    /\ before' = config
    /\ UNCHANGED <<config, inst, loaded, loader, matVars>>

GetResolvedPath ==
  \E i \in Instances, nm \in PathNames :
    /\ inst[i].built
    /\ LET r == getResolvedPath(inst[i], config, nm) IN
         /\ config' = r.config
         /\ ret' = Call("getResolvedPath", i, AGENT_SECTION, nm, r.result)
    /\ before' = config
    /\ UNCHANGED <<inst, loaded, loader, matVars>>

Get ==
  \E i \in Instances, q \in Lookups :
    /\ inst[i].built
    /\ LET r == get(inst[i], config, q[1], q[2]) IN
         /\ config' = r.config
         /\ ret' = Call("get", i, q[1], q[2], r.result)
    /\ before' = config
    /\ UNCHANGED <<inst, loaded, loader, matVars>>

SetConfig ==
  \E i \in Instances, configFile \in FileNames :
    /\ inst[i].built
    /\ Len(loaded) < MaxLoads
    /\ LET r == setConfig(inst[i], config, configFile) IN
         /\ config' = r.config
         /\ ret' = Call("setConfig", i, "", configFile, r.result)
    /\ before' = config
    /\ loaded' = Append(loaded, configFile)
    /\ loader' = i
    /\ UNCHANGED <<inst, matVars>>

vars == <<matVars, agentVars>>

\* the provisioning process runs the package scripts and never imports
\* AgentConfig: its parser is not there
NotImported ==
  /\ config = RawConfigParser
  /\ inst = [i \in Instances |-> Unbuilt]
  /\ ret = NoCall
  /\ before = RawConfigParser
  /\ loaded = <<>>
  /\ loader = ""

Init == InitMat /\ NotImported

Next ==
  \/ Invoke
  \/ CreateConfDir
  \/ CreatePidDir
  \/ CreateLogDir
  \/ ServerSite
  \/ ClientSite
  \/ EnvFile
  \/ HostFile
  \/ Log4jOverride
  \/ Log4jStatic
  \/ LoggingFile
  \/ PolicyFile
  \/ PolicySkip

Spec == Init /\ [][Next]_vars

\* the agent process: the configuration store alone, setup_conf_dir never run
InitStore ==
  /\ InitAgent
  /\ params = CHOOSE p \in ParamsChoices :
                 /\ p.log4j_props = NoneVal
                 /\ DOMAIN p.configurations = {"accumulo-site"}
                 /\ DOMAIN p.configurations["accumulo-site"] = ClientKeys
  /\ name = NoneVal
  /\ pc = "idle"
  /\ fs = EmptyFs
  /\ applied = <<>>
  /\ runs = 0
  /\ prevName = "<never>"
  /\ prevFs = EmptyFs

NextAgent ==
  \/ Construct
  \/ GetRootPath
  \/ GetLabel
  \/ GetResolvedPath
  \/ Get
  \/ SetConfig

SpecAgent == InitStore /\ [][NextAgent]_vars

(***************************************************************************)
(* Properties of setup_conf_dir (checked under Spec)                       *)
(***************************************************************************)
Completed == pc = "idle" /\ runs > 0
SitePath == Path(params.conf_dir, "accumulo-site.xml")
Log4jPath == Path(params.conf_dir, "log4j.properties")
PolicyPath == Path(params.conf_dir, "accumulo-policy.xml")
SiteSection == params.configurations["accumulo-site"]

\* the positions in `applied` where the running call wrote the file at path
Writes(path) ==
  { i \in 1..Len(applied) : applied[i].kind = "file" /\ applied[i].path = path }
DirsDeclared == { applied[i].path : i \in { j \in 1..Len(applied) : applied[j].kind = "dir" } }
FilesDeclared == { applied[i].path : i \in { j \in 1..Len(applied) : applied[j].kind = "file" } }
OwnedByService(a) == a.owner = params.accumulo_user /\ a.group = params.user_group

\* C1: once a call for role 'client' has rendered accumulo-site.xml, the
\* file's configuration map has exactly the keys instance.zookeeper.host,
\* instance.dfs.dir and general.classpaths, each with the bundle's value,
\* however many other keys the bundle's 'accumulo-site' section has.
C1_ClientSiteHasExactlyThreeKeys ==
  (name = "client" /\ Writes(SitePath) # {}) =>
    /\ fs.files[SitePath].content.kind = "xml"
    /\ DOMAIN fs.files[SitePath].content.of = ClientKeys
    /\ \A k \in ClientKeys : fs.files[SitePath].content.of[k] = SiteSection[k]
    /\ \A i \in Writes(SitePath) : applied[i].content = fs.files[SitePath].content

C1_Witness ==
  /\ Completed
  /\ name = "client"
  /\ DOMAIN SiteSection = ClientKeys \cup ExtraSiteKeys
  /\ DOMAIN fs.files[SitePath].content.of = ClientKeys

\* C2: a call creates the pid and the log directory if and only if its role
\* is not 'client': a completed call for any other role, the omitted role
\* included, has declared both and both exist; a call for 'client' declares
\* neither in any of its steps and adds neither to the filesystem.
C2_ServerDirsIffNotClient ==
  /\ name = "client" =>
       /\ DirsDeclared \cap {params.pid_dir, params.log_dir} = {}
       /\ \A d \in {params.pid_dir, params.log_dir} :
            Has(fs.dirs, d) => Has(prevFs.dirs, d)
  /\ (Completed /\ name # "client") =>
       /\ {params.pid_dir, params.log_dir} \subseteq DirsDeclared
       /\ {params.pid_dir, params.log_dir} \subseteq DOMAIN fs.dirs

C2_Witness ==
  /\ Completed
  /\ runs = 2
  /\ prevName = "client"
  /\ ~Has(prevFs.dirs, params.pid_dir)
  /\ ~Has(prevFs.dirs, params.log_dir)
  /\ name = NoneVal
  /\ Has(fs.dirs, params.pid_dir)
  /\ Has(fs.dirs, params.log_dir)

C7_EverythingOwnedByService ==
  /\ \A d \in DOMAIN fs.dirs : OwnedByService(fs.dirs[d])
  /\ \A f \in DOMAIN fs.files : OwnedByService(fs.files[f])
  /\ DirsDeclared \subseteq DOMAIN fs.dirs
  /\ FilesDeclared \subseteq DOMAIN fs.files

C7_Witness ==
  /\ Completed
  /\ name = "tserver"
  /\ HasPolicy(params.configurations)
  /\ Log4jOverridden(params.log4j_props)
  /\ Cardinality(DOMAIN fs.dirs) = 3
  /\ Cardinality(DOMAIN fs.files) = 13
  /\ \A f \in DOMAIN fs.files : OwnedByService(fs.files[f])

ProducedFileNames ==
  {"accumulo-site.xml", "accumulo-env.sh", "masters", "slaves", "monitor", "gc",
   "tracers", "log4j.properties", "auditLog.xml", "generic_logger.xml",
   "monitor_logger.xml", "accumulo-metrics.xml"}

\* C8: the files a completed call has written are exactly the twelve fixed
\* files plus accumulo-policy.xml when the bundle has an 'accumulo-policy'
\* section, every one of them at a path inside the configured conf directory.
C8_AllFilesInsideConfDir ==
  Completed =>
    FilesDeclared =
      { Path(params.conf_dir, n) : n \in ProducedFileNames }
      \cup (IF HasPolicy(params.configurations) THEN {PolicyPath} ELSE {})

\* C9: a call writes log4j.properties exactly once, with mode 0644: the
\* override string verbatim when the parameters hold one (the empty string
\* included), the static default otherwise, and never the static default
\* when an override is present.
Log4jStepDone ==
  \/ Completed
  \/ pc = "policy"
  \/ \E i \in 1..Len(LoggingFiles) : pc = LoggingFiles[i]
Log4jExpected ==
  IF params.log4j_props # NoneVal THEN InlineContent(params.log4j_props)
  ELSE StaticFile("log4j.properties")
C9_Log4jWrittenOnce ==
  /\ Cardinality(Writes(Log4jPath)) <= 1
  /\ \A i \in Writes(Log4jPath) : applied[i].content = Log4jExpected
  /\ Log4jStepDone =>
       /\ Cardinality(Writes(Log4jPath)) = 1
       /\ fs.files[Log4jPath].content = Log4jExpected
       /\ fs.files[Log4jPath].mode = "0644"

C9_Witness ==
  /\ Completed
  /\ params.log4j_props = ""
  /\ fs.files[Log4jPath].content = InlineContent("")
  /\ fs.files[Log4jPath].mode = "0644"

(***************************************************************************)
(* Properties of the agent configuration store (checked under SpecAgent)   *)
(*                                                                         *)
(* What the embedded text and the loaded files define is read off the      *)
(* texts themselves, not off the parser.                                   *)
(***************************************************************************)
RECURSIVE OptionsOf(_, _)
\* the <<section, key, value>> triples of the lines under one header
OptionsOf(sect, opts) ==
  IF opts = <<>> THEN <<>>
  ELSE << <<sect, Head(opts)[1], Head(opts)[2]>> >> \o OptionsOf(sect, Tail(opts))

RECURSIVE Triples(_)
Triples(blocks) ==
  IF blocks = <<>> THEN <<>>
  ELSE OptionsOf(Head(blocks).sect, Head(blocks).opts) \o Triples(Tail(blocks))

RECURSIVE BlocksOfFiles(_)
\* the blocks of the files in a list of file names, in load order
BlocksOfFiles(files) ==
  IF files = <<>> THEN <<>>
  ELSE (IF Head(files) \in DOMAIN Disk THEN Disk[Head(files)] ELSE <<>>)
       \o BlocksOfFiles(Tail(files))

LoadedBlocks == BlocksOfFiles(loaded)
LoadedTriples == Triples(LoadedBlocks)
EmbeddedTriples == Triples(content)

SameOption(a, b) == optionxform(a) = optionxform(b)
Positions(triples, s, k) ==
  { i \in 1..Len(triples) : triples[i][1] = s /\ SameOption(triples[i][2], k) }
Max(S) == CHOOSE x \in S : \A y \in S : y <= x
LastValue(triples, s, k) == triples[Max(Positions(triples, s, k))][3]

FilesDefine(s, k) == Positions(LoadedTriples, s, k) # {}
EmbeddedDefines(s, k) == Positions(EmbeddedTriples, s, k) # {}
\* the sections of the store: those of the embedded text and those some
\* loaded file has a header for; [DEFAULT] is not one of them
StoreSections ==
  ({ content[i].sect : i \in 1..Len(content) }
   \cup { LoadedBlocks[i].sect : i \in 1..Len(LoadedBlocks) }) \ {DEFAULTSECT}
\* the option names given in section s, lower-cased
SectionKeys(s) ==
  { optionxform(EmbeddedTriples[i][2]) :
      i \in { j \in 1..Len(EmbeddedTriples) : EmbeddedTriples[j][1] = s } }
  \cup { optionxform(LoadedTriples[i][2]) :
      i \in { j \in 1..Len(LoadedTriples) : LoadedTriples[j][1] = s } }
DefaultKeys == SectionKeys(DEFAULTSECT)

\* what get(s, k) gives by the texts: the most recently loaded value of s/k;
\* failing that the embedded default; failing that the section's own name
\* for "__name__"; failing that the most recently loaded [DEFAULT] value
ExpectedGet(s, k) ==
  IF FilesDefine(s, k) THEN Returned(LastValue(LoadedTriples, s, k))
  ELSE IF s = DEFAULTSECT THEN Raised("NoOptionError")
  ELSE IF s \notin StoreSections THEN Raised("NoSectionError")
  ELSE IF EmbeddedDefines(s, k) THEN Returned(LastValue(EmbeddedTriples, s, k))
  ELSE IF optionxform(k) = "__name__" THEN Returned(<<s>>)
  ELSE IF FilesDefine(DEFAULTSECT, k)
    THEN Returned(LastValue(LoadedTriples, DEFAULTSECT, k))
  ELSE Raised("NoOptionError")

\* C3, as claimed: get(s, k) is the value of the most recently loaded file
\* that defines s/k, and for every s/k no loaded file defines it is what it
\* was with the embedded defaults alone (a value, or the failed lookup).
C3_Original ==
  \A s \in Categories, k \in Names :
    IF FilesDefine(s, k)
      THEN ConfigGet(config, s, k) = Returned(LastValue(LoadedTriples, s, k))
      ELSE \/ ConfigGet(config, s, k) = ConfigGet(DefaultConfig, s, k)
           \/ /\ ConfigGet(config, s, k).error # ""
              /\ ConfigGet(DefaultConfig, s, k).error # ""

\* C3, amended: after any sequence of setConfig calls, get(s, k), with k
\* compared lower-cased, is the value of the most recently loaded file that
\* defines s/k; where no loaded file defines s/k it is the embedded default
\* if there is one, else, in a section that exists, the section's name for
\* the key "__name__" and otherwise the most recently loaded [DEFAULT] value
\* of k; only when none of these applies does the lookup fail.
C3_LastLoadedWinsWithDefaultFallback ==
  \A s \in Categories, k \in Names : ConfigGet(config, s, k) = ExpectedGet(s, k)

C3_Witness ==
  /\ loaded = <<"default.ini", "debug.ini">>
  /\ ConfigGet(config, "agent", "log_level") = Returned(<<"DEBUG">>)
  /\ ConfigGet(config, "server", "port") = Returned(<<"8440">>)
  /\ ConfigGet(config, "python", "foo") = Returned(<<"bar">>)
  /\ ConfigGet(config, "nosuch", "foo") = Raised("NoSectionError")

\* R joined with V: V itself when V is absolute, else R, a separator unless
\* R is empty or ends with one, and V
Joined(R, V) ==
  IF V # <<>> /\ Head(V) = "/" THEN V
  ELSE R \o (IF R = <<>> \/ R[Len(R)] = "/" THEN <<>> ELSE <<"/">>) \o V

\* C4: getResolvedPath(name), for a name configured in the 'agent' section
\* with current value V and an object with root R, returns V unchanged when
\* V is absolute and R joined with V otherwise; V is the value the section
\* has after the setConfig calls made so far.
C4_ResolvedPath ==
  (/\ ret.op = "getResolvedPath"
   /\ optionxform(ret.name) \in SectionKeys(AGENT_SECTION)) =>
    /\ ret.error = ""
    /\ ExpectedGet(AGENT_SECTION, ret.name).error = ""
    /\ ret.value = Joined(inst[ret.self].agentRoot,
                          ExpectedGet(AGENT_SECTION, ret.name).value)
    /\ isabs(ExpectedGet(AGENT_SECTION, ret.name).value) =>
         ret.value = ExpectedGet(AGENT_SECTION, ret.name).value

C4_Witness ==
  /\ ret.op = "getResolvedPath"
  /\ ret.name = "app_pkg_dir"
  /\ "paths.ini" \in { loaded[i] : i \in 1..Len(loaded) }
  /\ inst[ret.self].agentRoot = <<"/", "opt", "/", "agent">>
  /\ ret.value = <<"/", "abs", "/", "path">>

IsLookup == ret.op \in {"get", "getResolvedPath"}

\* C5, as claimed: get with a section that is not in the store, or with a
\* key that is not in an existing section, and getResolvedPath with a name
\* not configured in 'agent', fail with a lookup error, return no value and
\* leave the store unchanged.
C5_Original ==
  (/\ IsLookup
   /\ \/ ret.category \notin StoreSections
      \/ optionxform(ret.name) \notin SectionKeys(ret.category)) =>
    /\ ret.error \in {"NoSectionError", "NoOptionError"}
    /\ ret.value = <<>>
    /\ config = before

\* the lookups that fail: a section that is not in the store (unless it is
\* DEFAULT and a loaded file gives the key under [DEFAULT]), or a key that
\* is neither in the existing section, nor "__name__", nor given under
\* [DEFAULT] by a loaded file
LookupFails(s, k) ==
  IF s \in StoreSections
    THEN optionxform(k) \notin SectionKeys(s) \cup {"__name__"} \cup DefaultKeys
    ELSE ~(s = DEFAULTSECT /\ optionxform(k) \in DefaultKeys)

\* C5, amended: get(category, name), and getResolvedPath(name) for the
\* 'agent' section, fail exactly when LookupFails: with NoSectionError for a
\* section that is not in the store and is not DEFAULT, with NoOptionError
\* otherwise; a failed lookup returns no value, and no lookup, failed or
\* not, changes the store.
C5_FailsExactlyWhenNothingApplies ==
  IsLookup =>
    /\ (ret.error # "") = LookupFails(ret.category, ret.name)
    /\ ret.error # "" =>
         /\ ret.value = <<>>
         /\ ret.error =
              IF ret.category \notin StoreSections /\ ret.category # DEFAULTSECT
                THEN "NoSectionError" ELSE "NoOptionError"
    /\ config = before

C5_Witness ==
  /\ ret.op = "get"
  /\ ret.category = "python"
  /\ ret.name = "port"
  /\ ret.error = "NoOptionError"
  /\ loaded # <<>>
  /\ config = before

\* C10: the store is shared and root path and label are per object: a get
\* or getResolvedPath through any object answers from all the files loaded
\* so far, whichever object loaded them, resolving against its own root; and
\* no call changes the root path or label of an object that has been built.
C10_SharedStorePerObjectRoot ==
  /\ [](ret.op = "get" =>
          [error |-> ret.error, value |-> ret.value]
            = ExpectedGet(ret.category, ret.name))
  /\ [](ret.op = "getResolvedPath" =>
          [error |-> ret.error, value |-> ret.value]
            = IF ExpectedGet(AGENT_SECTION, ret.name).error # ""
                THEN ExpectedGet(AGENT_SECTION, ret.name)
                ELSE Returned(Joined(inst[ret.self].agentRoot,
                                     ExpectedGet(AGENT_SECTION, ret.name).value)))
  /\ [](ret.op = "getRootPath" => ret.value = inst[ret.self].agentRoot)
  /\ [](ret.op = "getLabel" => ret.value = <<inst[ret.self].label>>)
  /\ [][\A i \in Instances : inst[i].built => inst'[i] = inst[i]]_vars

C10_Witness ==
  /\ loader = "a"
  /\ loaded = <<"debug.ini">>
  /\ ret.op = "getResolvedPath"
  /\ ret.self = "b"
  /\ ret.name = "log_level"
  /\ inst["a"].agentRoot # inst["b"].agentRoot
  /\ ret.value = inst["b"].agentRoot \o <<"DEBUG">>

====
